---- MODULE Spec2Model ----
(***************************************************************************)
(* State-machine model of the LangChain / Langfuse demonstration CLI:      *)
(* config.py (credentials), src/tracing.py (handler factory),              *)
(* src/agent.py (summarize, analyze_text, chat, rag_query), main.py (the   *)
(* four CLI commands), examples/03_sessions.py (the multi-turn chat loop   *)
(* that threads the history through successive chat calls) and             *)
(* src/tools.py (count_words, extract_keywords).  Spec is the CLI and the  *)
(* example script; SpecTracing and SpecTools call the functions of         *)
(* tracing.py and tools.py directly.                                       *)
(*                                                                         *)
(* Python values: a str is a sequence of one-character strings; an         *)
(* Optional[X] is a sequence of length 0 (None) or 1 (the value); a list   *)
(* is a sequence; a dict is a function over its keys.                      *)
(***************************************************************************)
EXTENDS Integers, Sequences, FiniteSets, TLC

(***************************************************************************)
(* Bounds of the model                                                     *)
(***************************************************************************)
\* number of chat turns the session script may run
MaxTurns == 2

\* number of tokens a text given to a tool is made of
MaxTokens == 4

\* length of the strings given to parse_tags
MaxTagsLen == 5

(***************************************************************************)
(* Python values                                                           *)
(***************************************************************************)
None == <<>>
Some(v) == <<v>>
IsNone(o) == o = None
Val(o) == o[1]

\* Python truthiness of an Optional[str] / Optional[list]: None, "" and []
\* are falsy.
Truthy(o) == o # None /\ Val(o) # <<>>

Whitespace == {" ", "\n", "\t"}

RECURSIVE LStrip(_)
LStrip(s) ==
  IF s # <<>> /\ Head(s) \in Whitespace THEN LStrip(Tail(s)) ELSE s

RECURSIVE RStrip(_)
RStrip(s) ==
  IF s # <<>> /\ s[Len(s)] \in Whitespace
    THEN RStrip(SubSeq(s, 1, Len(s) - 1))
    ELSE s

\* str.strip()
Strip(s) == RStrip(LStrip(s))

\* IsBlank with the strip() test forgotten
IsBlank_no_strip(o) == ~Truthy(o)

\* the idiom `not text or not text.strip()` of src/agent.py
IsBlank(o) == (~Truthy(o)) \/ Strip(Val(o)) = <<>>

UpperChars == <<"A","B","C","D","E","F","G","H","I","J","K","L","M",
                "N","O","P","Q","R","S","T","U","V","W","X","Y","Z">>
LowerChars == <<"a","b","c","d","e","f","g","h","i","j","k","l","m",
                "n","o","p","q","r","s","t","u","v","w","x","y","z">>

LowerChar(c) ==
  IF \E i \in 1..26 : UpperChars[i] = c
    THEN LowerChars[CHOOSE i \in 1..26 : UpperChars[i] = c]
    ELSE c

\* str.lower()
Lower(s) == [i \in 1..Len(s) |-> LowerChar(s[i])]

\* the Python test `pat in s` on strings
Contains(s, pat) ==
  \E i \in 0..(Len(s) - Len(pat)) : SubSeq(s, i + 1, i + Len(pat)) = pat

\* sep.join(parts), each part and sep being a str
RECURSIVE Join(_, _)
Join(parts, sep) ==
  IF parts = <<>> THEN <<>>
  ELSE IF Len(parts) = 1 THEN parts[1]
  ELSE parts[1] \o sep \o Join(Tail(parts), sep)

(***************************************************************************)
(* config.py                                                               *)
(***************************************************************************)
S_LANGFUSE_PUBLIC_KEY ==
  <<"L","A","N","G","F","U","S","E","_","P","U","B","L","I","C","_","K","E","Y">>
S_LANGFUSE_SECRET_KEY ==
  <<"L","A","N","G","F","U","S","E","_","S","E","C","R","E","T","_","K","E","Y">>

DefaultModel == <<"l","l","a","m","a","3",".","1">>
DefaultBaseUrl == <<"h","t","t","p",":","/","/","l","o","c","a","l","h","o","s","t">>
DefaultHost == <<"h","t","t","p","s",":","/","/","c","l","o","u","d">>

\* values an environment variable may have when the module is loaded:
\* unset, set to the empty string, set to a value
EnvValues == {None, Some(<<>>), Some(<<"k","1">>)}

\* os.getenv(name) / os.getenv(name, default)
getenv(env, name) == env[name]
getenv_default(env, name, default) ==
  IF env[name] = None THEN default ELSE Val(env[name])

Environments ==
  [OLLAMA_MODEL : {None}, OLLAMA_BASE_URL : {None},
   LANGFUSE_PUBLIC_KEY : EnvValues, LANGFUSE_SECRET_KEY : EnvValues,
   LANGFUSE_HOST : {None, Some(<<"h","t","t","p",":","/","/","l","f">>)}]

\* class Config: the class attributes evaluated at import time
Config(env) ==
  [OLLAMA_MODEL |-> getenv_default(env, "OLLAMA_MODEL", DefaultModel),
   OLLAMA_BASE_URL |-> getenv_default(env, "OLLAMA_BASE_URL", DefaultBaseUrl),
   LANGFUSE_PUBLIC_KEY |-> getenv(env, "LANGFUSE_PUBLIC_KEY"),
   LANGFUSE_SECRET_KEY |-> getenv(env, "LANGFUSE_SECRET_KEY"),
   LANGFUSE_HOST |-> getenv_default(env, "LANGFUSE_HOST", DefaultHost)]

\* validate_missing with the check of the secret key forgotten
validate_missing_public_only(cfg) ==
  IF ~Truthy(cfg.LANGFUSE_PUBLIC_KEY) THEN <<S_LANGFUSE_PUBLIC_KEY>> ELSE <<>>

\* validate_missing testing `is None` instead of truthiness
validate_missing_none_only(cfg) ==
  (IF cfg.LANGFUSE_PUBLIC_KEY = None THEN <<S_LANGFUSE_PUBLIC_KEY>> ELSE <<>>)
  \o (IF cfg.LANGFUSE_SECRET_KEY = None THEN <<S_LANGFUSE_SECRET_KEY>> ELSE <<>>)

\* the list `missing` built by Config.validate
validate_missing(cfg) ==
  (IF ~Truthy(cfg.LANGFUSE_PUBLIC_KEY) THEN <<S_LANGFUSE_PUBLIC_KEY>> ELSE <<>>)
  \o (IF ~Truthy(cfg.LANGFUSE_SECRET_KEY) THEN <<S_LANGFUSE_SECRET_KEY>> ELSE <<>>)

MsgMissingHead ==
  <<"M","i","s","s","i","n","g"," ","r","e","q","u","i","r","e","d"," ",
    "e","n","v","i","r","o","n","m","e","n","t"," ",
    "v","a","r","i","a","b","l","e","s",":"," ">>
MsgMissingTail ==
  <<"."," ","P","l","e","a","s","e"," ","s","e","t"," ","t","h","e","m"," ",
    "i","n"," ","y","o","u","r"," ",".","e","n","v"," ","f","i","l","e"," ",
    "o","r"," ","e","n","v","i","r","o","n","m","e","n","t",".">>

\* an exception object: its class, str(e) and __cause__ (None or one exception)
Exc(type, msg) == [type |-> type, msg |-> msg, cause |-> None]

\* outcome of a call: a normal return with a value, or a raised exception
Return(v) == [raised |-> FALSE, value |-> v]
Raise(e) == [raised |-> TRUE, exc |-> e]

\* Config.validate(): returns None or raises ValueError naming the missing
\* variables
validate(cfg) ==
  LET missing == validate_missing(cfg) IN
  IF missing # <<>>
    THEN Raise(Exc("ValueError",
                   MsgMissingHead \o Join(missing, <<",", " ">>) \o MsgMissingTail))
    ELSE Return(None)

(***************************************************************************)
(* src/tracing.py                                                          *)
(***************************************************************************)
\* Langfuse(public_key=..., secret_key=..., host=...)
Langfuse(cfg) ==
  [public_key |-> cfg.LANGFUSE_PUBLIC_KEY,
   secret_key |-> cfg.LANGFUSE_SECRET_KEY,
   host |-> cfg.LANGFUSE_HOST]

\* CallbackHandler(public_key=..., secret_key=..., host=...) followed by the
\* seven attribute assignments of get_langfuse_handler
CallbackHandler(cfg, attrs) ==
  [public_key |-> cfg.LANGFUSE_PUBLIC_KEY,
   secret_key |-> cfg.LANGFUSE_SECRET_KEY,
   host |-> cfg.LANGFUSE_HOST,
   _langfuse_trace_name |-> attrs.trace_name,
   _langfuse_session_id |-> attrs.session_id,
   _langfuse_user_id |-> attrs.user_id,
   _langfuse_environment |-> attrs.environment,
   _langfuse_tags |-> attrs.tags,
   _langfuse_custom_metadata |-> attrs.metadata,
   _langfuse_release |-> attrs.release]

\* get_langfuse_handler(**attrs): config.validate() first; only when it
\* returns are the client and the handler constructed.  The outcome carries
\* the objects constructed by the call.
get_langfuse_handler(cfg, attrs) ==
  LET v == validate(cfg) IN
  IF v.raised
    THEN [raised |-> TRUE, exc |-> v.exc, new_clients |-> <<>>, new_handlers |-> <<>>]
    ELSE [raised |-> FALSE, exc |-> Exc("", <<>>),
          new_clients |-> <<Langfuse(cfg)>>,
          new_handlers |-> <<CallbackHandler(cfg, attrs)>>]

\* d[k] = v on a dict (a function over its keys)
DictSet(d, k, v) == [x \in DOMAIN d \cup {k} |-> IF x = k THEN v ELSE d[x]]

\* d.update(e): the entries of e are written over those of d
DictUpdate(d, e) ==
  [x \in DOMAIN d \cup DOMAIN e |-> IF x \in DOMAIN e THEN e[x] ELSE d[x]]

\* hasattr(handler, name) and handler.name, for an attribute holding a str
\* or a list
HasTruthy(handler, name) == name \in DOMAIN handler /\ Truthy(handler[name])

\* the same for the custom metadata, a parsed value that is true when it
\* has entries
HasTruthyValue(handler, name) ==
  /\ name \in DOMAIN handler
  /\ handler[name] # None
  /\ Val(handler[name]).size > 0

\* one `if hasattr(handler, attr) and handler.attr: metadata[key] = handler.attr`
CopyAttr(metadata, handler, attr, key) ==
  IF HasTruthy(handler, attr) THEN DictSet(metadata, key, Val(handler[attr]))
  ELSE metadata

\* get_trace_metadata(handler): the langfuse_ keys of the attributes that
\* are true, then metadata.update(custom metadata), which raises TypeError
\* when the custom metadata is not a mapping
get_trace_metadata(handler) ==
  LET m1 == CopyAttr(<<>>, handler, "_langfuse_trace_name", "langfuse_name")
      m2 == CopyAttr(m1, handler, "_langfuse_session_id", "langfuse_session_id")
      m3 == CopyAttr(m2, handler, "_langfuse_user_id", "langfuse_user_id")
      m4 == CopyAttr(m3, handler, "_langfuse_environment", "langfuse_environment")
      m5 == CopyAttr(m4, handler, "_langfuse_tags", "langfuse_tags")
      m6 == CopyAttr(m5, handler, "_langfuse_release", "langfuse_release")
  IN IF HasTruthyValue(handler, "_langfuse_custom_metadata")
       THEN LET custom == Val(handler._langfuse_custom_metadata) IN
            IF custom.type = "dict" THEN Return(DictUpdate(m6, custom.items))
            ELSE Raise(Exc("TypeError", <<>>))
       ELSE Return(m6)

(***************************************************************************)
(* main.py: helpers                                                        *)
(***************************************************************************)
\* str.split(sep) for a one-character separator: the segments between
\* separators, empty segments kept
RECURSIVE SplitAcc(_, _, _)
SplitAcc(s, sep, cur) ==
  IF s = <<>> THEN <<cur>>
  ELSE IF Head(s) = sep THEN <<cur>> \o SplitAcc(Tail(s), sep, <<>>)
  ELSE SplitAcc(Tail(s), sep, Append(cur, Head(s)))

Split(s, sep) == SplitAcc(s, sep, <<>>)

\* StripNonBlank with the `if tag.strip()` filter forgotten
StripNonBlank_keeps_blank(segs) == [i \in 1..Len(segs) |-> Strip(segs[i])]

\* [tag.strip() for tag in segs if tag.strip()]
RECURSIVE StripNonBlank(_)
StripNonBlank(segs) ==
  IF segs = <<>> THEN <<>>
  ELSE (IF Strip(Head(segs)) # <<>> THEN <<Strip(Head(segs))>> ELSE <<>>)
       \o StripNonBlank(Tail(segs))

\* parse_tags(tags_str)
parse_tags(tags_str) ==
  IF ~Truthy(tags_str) THEN None
  ELSE Some(StripNonBlank(Split(Val(tags_str), ",")))

\* JSON texts given to --metadata
JsonObject == <<"{", "\"", "k", "\"", ":", "\"", "v", "\"", "}">>
JsonArray == <<"[", "1", "]">>
JsonBroken == <<"{", "k">>

\* json.loads on the texts above: the parsed Python value (its type, its
\* keys when it is a dict, its number of entries) or JSONDecodeError
json_loads(s) ==
  CASE s = JsonObject ->
         Return([type |-> "dict", keys |-> << <<"k">> >>, size |-> 1,
                 items |-> [k |-> <<"v">>]])
    [] s = JsonArray ->
         Return([type |-> "list", keys |-> <<>>, size |-> 1, items |-> <<>>])
    [] OTHER -> Raise(Exc("JSONDecodeError", s))

\* parse_metadata(metadata_str): None, the parsed value, or typer.Exit(1)
parse_metadata(metadata_str) ==
  IF ~Truthy(metadata_str) THEN Return(None)
  ELSE LET r == json_loads(Val(metadata_str)) IN
       IF r.raised THEN Raise(Exc("Exit", <<"1">>)) ELSE Return(Some(r.value))

\* get_common_options(...): the attribute dict, or the exit of parse_metadata
get_common_options(trace_name, session_id, user_id, environment, tags, metadata, release) ==
  LET m == parse_metadata(metadata) IN
  IF m.raised THEN Raise(m.exc)
  ELSE Return([trace_name |-> trace_name,
               session_id |-> session_id,
               user_id |-> user_id,
               environment |-> environment,
               tags |-> parse_tags(tags),
               metadata |-> m.value,
               release |-> release])

\* generate_trace_name(prefix) at clock reading ts
generate_trace_name(prefix, ts) ==
  IF Truthy(prefix) THEN Val(prefix) \o <<"-">> \o ts
  ELSE <<"t","r","a","c","e","-">> \o ts

\* the prefix each command passes to generate_trace_name
TracePrefix(cmd) ==
  CASE cmd = "summarize" -> <<"s","u","m","m","a","r","i","z","a","t","i","o","n">>
    [] cmd = "analyze" -> <<"a","n","a","l","y","s","i","s">>
    [] cmd = "chat" -> <<"c","h","a","t">>
    [] cmd = "rag" -> <<"r","a","g">>

(***************************************************************************)
(* src/agent.py                                                            *)
(***************************************************************************)
MsgInputEmpty ==
  <<"I","n","p","u","t"," ","t","e","x","t"," ","c","a","n","n","o","t"," ",
    "b","e"," ","e","m","p","t","y">>
MsgMessageEmpty ==
  <<"M","e","s","s","a","g","e"," ","c","a","n","n","o","t"," ","b","e"," ",
    "e","m","p","t","y">>
MsgQuestionEmpty ==
  <<"Q","u","e","s","t","i","o","n"," ","c","a","n","n","o","t"," ","b","e",
    " ","e","m","p","t","y">>
MsgContextEmpty ==
  <<"C","o","n","t","e","x","t"," ","c","a","n","n","o","t"," ","b","e"," ",
    "e","m","p","t","y">>
MsgConnectHead ==
  <<"F","a","i","l","e","d"," ","t","o"," ","c","o","n","n","e","c","t"," ",
    "t","o"," ","O","l","l","a","m","a"," ","a","t"," ">>
MsgConnectTail ==
  <<"."," ","P","l","e","a","s","e"," ","e","n","s","u","r","e"," ","O","l",
    "l","a","m","a"," ","i","s"," ","r","u","n","n","i","n","g"," ","a","n",
    "d"," ","t","h","e"," ","b","a","s","e"," ","U","R","L"," ","i","s"," ",
    "c","o","r","r","e","c","t",".">>
S_connection ==
  <<"c","o","n","n","e","c","t","i","o","n">>
S_refused ==
  <<"r","e","f","u","s","e","d">>
ChatSystemPrompt ==
  <<"Y","o","u"," ","a","r","e"," ","a"," ","h","e","l","p","f","u","l"," ",
    "a","s","s","i","s","t","a","n","t","."," ","H","a","v","e"," ","a"," ",
    "n","a","t","u","r","a","l"," ","c","o","n","v","e","r","s","a","t","i",
    "o","n"," ","w","i","t","h"," ","t","h","e"," ","u","s","e","r",".">>
AnalyzePrefix ==
  <<"A","n","a","l","y","z","e"," ","t","h","i","s"," ","t","e","x","t"," ",
    "i","n"," ","d","e","t","a","i","l",":"," ">>

\* ChatOllama(model=config.OLLAMA_MODEL, base_url=config.OLLAMA_BASE_URL)
ChatOllama(cfg) == [model |-> cfg.OLLAMA_MODEL, base_url |-> cfg.OLLAMA_BASE_URL]

\* the four runnables: prompt | llm, the tool-calling agent executor, the
\* bare chat model
create_summarization_chain(cfg) == [kind |-> "summarization_chain", llm |-> ChatOllama(cfg)]
create_analysis_agent(cfg) == [kind |-> "analysis_agent", llm |-> ChatOllama(cfg)]
create_chat_agent(cfg) == [kind |-> "chat_llm", llm |-> ChatOllama(cfg)]
create_rag_chain(cfg) == [kind |-> "rag_chain", llm |-> ChatOllama(cfg)]

\* reraise comparing str(e) without lower()
reraise_case_sensitive(cfg, e) ==
  IF Contains(e.msg, S_connection) \/ Contains(e.msg, S_refused)
    THEN [type |-> "ConnectionError",
          msg |-> MsgConnectHead \o cfg.OLLAMA_BASE_URL \o MsgConnectTail,
          cause |-> Some(e)]
    ELSE e

\* the except clause shared by the four operations: an exception whose
\* lower-cased text contains "connection" or "refused" is replaced by a
\* ConnectionError raised `from e`; any other exception is re-raised as is
reraise(cfg, e) ==
  IF Contains(Lower(e.msg), S_connection) \/ Contains(Lower(e.msg), S_refused)
    THEN [type |-> "ConnectionError",
          msg |-> MsgConnectHead \o cfg.OLLAMA_BASE_URL \o MsgConnectTail,
          cause |-> Some(e)]
    ELSE e

\* summarize: invoke_config = {"callbacks": [h]} plus, for a truthy
\* trace_name, metadata {"trace_name": trace_name, "session_id": trace_name}
summarize_config(h, trace_name) ==
  IF Truthy(trace_name)
    THEN [callbacks |-> <<h>>,
          metadata |-> [trace_name |-> Val(trace_name),
                        session_id |-> Val(trace_name)]]
    ELSE [callbacks |-> <<h>>]

\* build_metadata as summarize builds its metadata: both keys from trace_name
build_metadata_like_summarize(trace_name, session_id) ==
  [k \in (IF Truthy(trace_name) THEN {"trace_name", "session_id"} ELSE {})
     |-> Val(trace_name)]

\* the dict `metadata` of analyze_text, chat and rag_query: trace_name and
\* session_id, each only when truthy
build_metadata(trace_name, session_id) ==
  [k \in (IF Truthy(trace_name) THEN {"trace_name"} ELSE {})
         \cup (IF Truthy(session_id) THEN {"session_id"} ELSE {})
     |-> IF k = "trace_name" THEN Val(trace_name) ELSE Val(session_id)]

\* invoke_config with the handler left out of the callbacks list
invoke_config_no_callbacks(h, trace_name, session_id) ==
  LET metadata ==
        [k \in (IF Truthy(trace_name) THEN {"trace_name"} ELSE {})
               \cup (IF Truthy(session_id) THEN {"session_id"} ELSE {})
           |-> IF k = "trace_name" THEN Val(trace_name) ELSE Val(session_id)]
  IN IF DOMAIN metadata # {}
       THEN [callbacks |-> <<>>, metadata |-> metadata]
       ELSE [callbacks |-> <<>>]

\* analyze_text, chat, rag_query: invoke_config = {"callbacks": [h]} plus the
\* metadata dict when it is not empty
invoke_config(h, trace_name, session_id) ==
  LET metadata == build_metadata(trace_name, session_id) IN
  IF DOMAIN metadata # {}
    THEN [callbacks |-> <<h>>, metadata |-> metadata]
    ELSE [callbacks |-> <<h>>]

\* what an operation does up to and including the call of invoke: either it
\* raises before anything is built, or it builds its runnable and issues one
\* invocation
Rejected(msg) ==
  [raised |-> TRUE, exc |-> Exc("ValueError", msg), built |-> <<>>, issued |-> <<>>]
Issued(runnable, op, input, conf) ==
  [raised |-> FALSE, exc |-> Exc("", <<>>), built |-> <<runnable>>,
   issued |-> <<[op |-> op, runnable |-> runnable.kind, input |-> input, config |-> conf]>>]

\* summarize(text, langfuse_handler, trace_name) up to chain.invoke
summarize_begin(cfg, text, h, trace_name) ==
  IF IsBlank(text) THEN Rejected(MsgInputEmpty)
  ELSE Issued(create_summarization_chain(cfg), "summarize",
              [text |-> Val(text)], summarize_config(h, trace_name))

\* analyze_text(text, langfuse_handler, trace_name, session_id) up to
\* agent.invoke
analyze_text_begin(cfg, text, h, trace_name, session_id) ==
  IF IsBlank(text) THEN Rejected(MsgInputEmpty)
  ELSE Issued(create_analysis_agent(cfg), "analyze_text",
              [input |-> AnalyzePrefix \o Val(text), chat_history |-> <<>>],
              invoke_config(h, trace_name, session_id))

\* history_messages with the two messages of each pair in the wrong order
history_messages_swapped(pairs) ==
  [i \in 1..(2 * Len(pairs)) |->
     IF i % 2 = 1
       THEN [role |-> "ai", content |-> pairs[(i + 1) \div 2][2]]
       ELSE [role |-> "human", content |-> pairs[i \div 2][1]]]

\* the message list of chat: the system message, the history pairs as
\* human / assistant messages, the new human message
RECURSIVE history_messages(_)
history_messages(pairs) ==
  IF pairs = <<>> THEN <<>>
  ELSE <<[role |-> "human", content |-> pairs[1][1]],
         [role |-> "ai", content |-> pairs[1][2]]>>
       \o history_messages(Tail(pairs))

chat_messages(history, message) ==
  <<[role |-> "system", content |-> ChatSystemPrompt]>>
  \o history_messages(history)
  \o <<[role |-> "human", content |-> message]>>

\* the list the local chat_history denotes after `if chat_history is None:
\* chat_history = []`; reference 0 is None
HistoryOf(ls, ref) == IF ref = 0 THEN <<>> ELSE ls[ref]

\* chat(message, langfuse_handler, chat_history, trace_name, session_id) up
\* to llm.invoke
chat_begin(cfg, message, h, ls, ref, trace_name, session_id) ==
  IF IsBlank(message) THEN Rejected(MsgMessageEmpty)
  ELSE Issued(create_chat_agent(cfg), "chat",
              chat_messages(HistoryOf(ls, ref), Val(message)),
              invoke_config(h, trace_name, session_id))

\* rag_query(question, context, langfuse_handler, trace_name, session_id) up
\* to chain.invoke
rag_query_begin(cfg, question, context, h, trace_name, session_id) ==
  IF IsBlank(question) THEN Rejected(MsgQuestionEmpty)
  ELSE IF IsBlank(context) THEN Rejected(MsgContextEmpty)
  ELSE Issued(create_rag_chain(cfg), "rag_query",
              [question |-> Val(question), context |-> Val(context)],
              invoke_config(h, trace_name, session_id))

\* the rest of an operation, once invoke has returned `llm.value` or raised
\* `llm.exc`: the value returned by the operation, or the exception it raises
summarize_end(cfg, llm) ==
  IF llm.raised THEN Raise(reraise(cfg, llm.exc)) ELSE Return(llm.value)

analyze_text_end(cfg, text, llm) ==
  IF llm.raised THEN Raise(reraise(cfg, llm.exc))
  ELSE Return([analysis |-> llm.value, text_length |-> Len(Val(text))])

rag_query_end(cfg, llm) ==
  IF llm.raised THEN Raise(reraise(cfg, llm.exc)) ELSE Return(llm.value)

\* chat: updated_history = chat_history + [(message, response)]
chat_updated_history(history, message, response) ==
  history \o << <<message, response>> >>

\* chat_end appending to the caller's list in place (chat_history.append)
chat_end_inplace(cfg, ls, message, ref, llm) ==
  IF llm.raised
    THEN [result |-> Raise(
            IF Contains(Lower(llm.exc.msg), S_connection)
               \/ Contains(Lower(llm.exc.msg), S_refused)
              THEN [type |-> "ConnectionError",
                    msg |-> MsgConnectHead \o cfg.OLLAMA_BASE_URL \o MsgConnectTail,
                    cause |-> Some(llm.exc)]
              ELSE llm.exc),
          lists |-> ls]
    ELSE [result |-> Return([response |-> llm.value, updated_history |-> ref]),
          lists |-> [ls EXCEPT ![ref] =
                       Append(@, <<Val(message), llm.value>>)]]

\* the rest of chat on the heap ls of list objects: `+` allocates a new list;
\* the operation returns (response, reference to the new list)
chat_end(cfg, ls, message, ref, llm) ==
  IF llm.raised
    THEN [result |-> Raise(reraise(cfg, llm.exc)), lists |-> ls]
    ELSE [result |-> Return([response |-> llm.value,
                             updated_history |-> Len(ls) + 1]),
          lists |-> Append(ls, chat_updated_history(HistoryOf(ls, ref),
                                                    Val(message), llm.value))]

(***************************************************************************)
(* Inputs of the model                                                     *)
(***************************************************************************)
Commands == {"summarize", "analyze", "chat", "rag"}

\* --text / --context, --file / --context-file, the chat message / --question
TextArgs == {None, Some(<<>>), Some(<<" ">>), Some(<<"h","i">>)}
FileArgs == {None, Some(<<"f">>)}
PromptArgs == {Some(<<>>), Some(<<" ">>), Some(<<"q">>)}

\* what reading the file gives: it does not exist, read_text raises, or its
\* content
FileStates ==
  {[exists |-> FALSE, readable |-> FALSE, content |-> <<>>],
   [exists |-> TRUE, readable |-> FALSE, content |-> <<>>],
   [exists |-> TRUE, readable |-> TRUE, content |-> <<>>],
   [exists |-> TRUE, readable |-> TRUE, content |-> <<" ", "\n">>],
   [exists |-> TRUE, readable |-> TRUE, content |-> <<"d","o","c">>]}

\* the options read when the trace attributes are prepared: every
\* combination of --trace-name, --session-id and --verbose without the other
\* options, and every combination of --user, --env, --tags, --metadata and
\* --release under a given trace name
Options ==
  [trace_name : {None, Some(<<>>), Some(<<"t","1">>)},
   session_id : {None, Some(<<>>), Some(<<"s","1">>)},
   user_id : {None}, environment : {None}, tags : {None}, metadata : {None},
   release : {None},
   verbose : BOOLEAN]
  \cup
  [trace_name : {Some(<<"t","1">>)},
   session_id : {Some(<<"s","1">>)},
   user_id : {None, Some(<<"u","1">>)},
   environment : {None, Some(<<"d","e","v">>)},
   tags : {None, Some(<<"a",","," ","b">>), Some(<<" ",",">>)},
   metadata : {None, Some(JsonObject), Some(JsonArray), Some(JsonBroken)},
   release : {None, Some(<<"v","1">>)},
   verbose : {FALSE}]

\* readings of datetime.now(), in seconds
Clock == {0, 1}

\* strftime("%Y%m%d-%H%M%S") of a clock reading
strftime(t) ==
  <<"2","0","2","5","0","1","0","1","-","0","0","0","0","0">> \o <<IF t = 0 THEN "0" ELSE "1">>

\* what the model (Ollama, through LangChain) does with an invocation: it
\* returns a content or raises
LLMErrors ==
  {Exc("ConnectError", <<"C","o","n","n","e","c","t","i","o","n"," ","r","e","f","u","s","e","d">>),
   Exc("ResponseError", <<"R","E","F","U","S","E","D">>),
   Exc("ConnectionResetError", <<"C","O","N","N","E","C","T","I","O","N"," ","r","e","s","e","t">>),
   Exc("TimeoutError", <<"t","i","m","e","d"," ","o","u","t">>),
   Exc("ValueError", <<"c","o","n","n","e","c","t">>)}

LLMContents == {<<"o","k">>, <<>>}

LLMOutcomes == {Return(c) : c \in LLMContents} \cup {Raise(e) : e \in LLMErrors}

(***************************************************************************)
(* State                                                                   *)
(***************************************************************************)
VARIABLES
  config,            \* the attributes of class Config
  prog,              \* the program that runs: a CLI command or the script
  pc,                \* its position
  inputs,            \* CLI: text, file and prompt arguments
  options,           \* CLI: the trace options
  input_text,        \* CLI: the loaded text / context
  trace_id,          \* CLI: local trace_id
  session_id,        \* CLI: local session_id (rebound by chat_cmd)
  attr_options,      \* CLI: result of get_common_options
  langfuse_handler,  \* reference to the handler in use (0: none yet)
  clients,           \* the Langfuse clients constructed so far
  handlers,          \* the CallbackHandler objects constructed so far
  chains,            \* the chains / agents / models built so far
  invocations,       \* the invocations issued so far
  lists,             \* the chat history list objects; a reference is an index
  chat_history,      \* script: reference to the current history list
  turn,              \* script: number of completed loop iterations
  call,              \* arguments of the operation being executed
  llm_result,        \* what the last invoke returned or raised
  result,            \* outcome of the last operation
  console,           \* lines printed
  exit_code,         \* exit code of the process (-1 while it runs)
  lib                \* library functions called directly: <<name, arguments, result>>

vars ==
  <<config, prog, pc, inputs, options, input_text, trace_id, session_id,
    attr_options, langfuse_handler, clients, handlers, chains, invocations,
    lists, chat_history, turn, call, llm_result, result, console, exit_code,
    lib>>

cliLocals == <<inputs, options, input_text, trace_id, session_id, attr_options>>
objects == <<clients, handlers, chains, invocations, lists>>
scriptLocals == <<chat_history, turn>>

NoInputs == [text |-> None, file |-> None, prompt |-> None]
NoOptions ==
  [trace_name |-> None, session_id |-> None, user_id |-> None,
   environment |-> None, tags |-> None, metadata |-> None, release |-> None,
   verbose |-> FALSE]
NoAttrs ==
  [trace_name |-> None, session_id |-> None, user_id |-> None,
   environment |-> None, tags |-> None, metadata |-> None, release |-> None]
NoCall ==
  [op |-> "", text |-> None, context |-> None, handler |-> 0, history |-> 0,
   trace_name |-> None, session_id |-> None]

Line(label, arg) == [label |-> label, arg |-> arg]

Init ==
  /\ config \in {Config(env) : env \in Environments}
  /\ prog = "none"
  /\ pc = "start"
  /\ inputs = NoInputs
  /\ options = NoOptions
  /\ input_text = None
  /\ trace_id = <<>>
  /\ session_id = None
  /\ attr_options = NoAttrs
  /\ langfuse_handler = 0
  /\ clients = <<>>
  /\ handlers = <<>>
  /\ chains = <<>>
  /\ invocations = <<>>
  /\ lists = <<>>
  /\ chat_history = 0
  /\ turn = 0
  /\ call = NoCall
  /\ llm_result = Return(<<>>)
  /\ result = Return(None)
  /\ console = <<>>
  /\ exit_code = -1
  /\ lib = <<>>

(***************************************************************************)
(* main.py: the four commands, step by step                                *)
(***************************************************************************)
\* raise typer.Exit(code) after printing `lines`; also the normal end of a
\* command (code 0)
Exit(code, lines) ==
  /\ pc' = "exit"
  /\ exit_code' = code
  /\ console' = console \o lines

\* input_check with the test for both inputs forgotten
input_check_no_both(text, file) ==
  IF ~Truthy(text) /\ ~Truthy(file) THEN "neither" ELSE "ok"

\* the two input checks at the head of summarize_cmd, analyze_cmd, rag_cmd
input_check(text, file) ==
  IF ~Truthy(text) /\ ~Truthy(file) THEN "neither"
  ELSE IF Truthy(text) /\ Truthy(file) THEN "both"
  ELSE "ok"

\* entry of a command with its input arguments, and its input validation
\* (chat_cmd has none)
CmdStart(cmd, text, file, prompt) ==
  /\ pc = "start"
  /\ prog' = cmd
  /\ inputs' = [text |-> text, file |-> file, prompt |-> prompt]
  /\ IF cmd = "chat"
       THEN /\ pc' = "validate_config"
            /\ UNCHANGED <<console, exit_code>>
       ELSE CASE input_check(text, file) = "neither" ->
                   Exit(1, <<Line("Error: Either input must be provided", <<>>)>>)
              [] input_check(text, file) = "both" ->
                   Exit(1, <<Line("Error: Provide either, not both", <<>>)>>)
              [] OTHER ->
                   /\ pc' = "load_input"
                   /\ UNCHANGED <<console, exit_code>>
  /\ UNCHANGED <<config, lib, options, input_text, trace_id, session_id, attr_options,
                 langfuse_handler, objects, scriptLocals, call, llm_result, result>>

\* LoadInput refusing a blank text itself, before the configuration is
\* validated
LoadInput_rejects_blank(fs) ==
  /\ pc = "load_input"
  /\ IF Truthy(inputs.file)
       THEN IF ~fs.exists
              THEN /\ Exit(1, <<Line("Error: File not found: ", Val(inputs.file))>>)
                   /\ UNCHANGED input_text
            ELSE IF ~fs.readable
              THEN /\ Exit(1, <<Line("Error reading file: ", <<>>)>>)
                   /\ UNCHANGED input_text
            ELSE /\ input_text' = Some(fs.content)
                 /\ IF IsBlank(Some(fs.content))
                      THEN Exit(1, <<Line("Error: ", MsgInputEmpty)>>)
                      ELSE /\ pc' = "validate_config"
                           /\ UNCHANGED <<console, exit_code>>
       ELSE /\ input_text' = inputs.text
            /\ IF IsBlank(inputs.text)
                 THEN Exit(1, <<Line("Error: ", MsgInputEmpty)>>)
                 ELSE /\ pc' = "validate_config"
                      /\ UNCHANGED <<console, exit_code>>
  /\ UNCHANGED <<config, lib, prog, inputs, options, trace_id, session_id, attr_options,
                 langfuse_handler, objects, scriptLocals, call, llm_result, result>>

\* loading of the text: the --text value, or the content of the file
LoadInput(fs) ==
  /\ pc = "load_input"
  /\ IF Truthy(inputs.file)
       THEN IF ~fs.exists
              THEN /\ Exit(1, <<Line("Error: File not found: ", Val(inputs.file))>>)
                   /\ UNCHANGED input_text
            ELSE IF ~fs.readable
              THEN /\ Exit(1, <<Line("Error reading file: ", <<>>)>>)
                   /\ UNCHANGED input_text
            ELSE /\ input_text' = Some(fs.content)
                 /\ pc' = "validate_config"
                 /\ UNCHANGED <<console, exit_code>>
       ELSE /\ input_text' = inputs.text
            /\ pc' = "validate_config"
            /\ UNCHANGED <<console, exit_code>>
  /\ UNCHANGED <<config, lib, prog, inputs, options, trace_id, session_id, attr_options,
                 langfuse_handler, objects, scriptLocals, call, llm_result, result>>

\* ValidateConfig resetting the host to its default once the keys are found
ValidateConfig_resets_host ==
  /\ pc = "validate_config"
  /\ prog \in Commands
  /\ LET v == validate(config) IN
     IF v.raised
       THEN /\ Exit(1, <<Line("Configuration Error: ", v.exc.msg)>>)
            /\ UNCHANGED config
       ELSE /\ pc' = "prepare"
            /\ config' = [config EXCEPT !.LANGFUSE_HOST = DefaultHost]
            /\ UNCHANGED <<console, exit_code>>
  /\ UNCHANGED <<lib, prog, cliLocals, langfuse_handler, objects,
                 scriptLocals, call, llm_result, result>>

\* try: config.validate() except ValueError: print, exit 1
ValidateConfig ==
  /\ pc = "validate_config"
  /\ prog \in Commands
  /\ LET v == validate(config) IN
     IF v.raised
       THEN Exit(1, <<Line("Configuration Error: ", v.exc.msg)>>)
       ELSE /\ pc' = "prepare"
            /\ UNCHANGED <<console, exit_code>>
  /\ UNCHANGED <<config, lib, prog, cliLocals, langfuse_handler, objects,
                 scriptLocals, call, llm_result, result>>

S_session == <<"s","e","s","s","i","o","n","-">>

\* the lines printed under --verbose before the handler is created
verbose_lines(cmd, opts, tid, sid, generated, cfg) ==
  IF ~opts.verbose THEN <<>>
  ELSE (IF cmd = "chat" /\ generated
          THEN <<Line("No session ID provided, using: ", Val(sid))>> ELSE <<>>)
       \o <<Line("Using trace name: ", tid)>>
       \o (IF cmd = "chat" THEN <<Line("Session ID: ", Val(sid))>> ELSE <<>>)
       \o <<Line("Ollama model: ", cfg.OLLAMA_MODEL)>>
       \o (IF cmd # "chat" THEN <<Line("Ollama URL: ", cfg.OLLAMA_BASE_URL)>> ELSE <<>>)
       \o <<Line("Langfuse host: ", cfg.LANGFUSE_HOST)>>

\* make_trace_id calling generate_trace_name() without the command's prefix
make_trace_id_no_prefix(cmd, trace_name, now) ==
  IF Truthy(trace_name) THEN Val(trace_name)
  ELSE generate_trace_name(None, strftime(now))

\* trace_id = trace_name if trace_name else generate_trace_name(prefix)
make_trace_id(cmd, trace_name, now) ==
  IF Truthy(trace_name) THEN Val(trace_name)
  ELSE generate_trace_name(Some(TracePrefix(cmd)), strftime(now))

\* make_session_id with the default of the chat command forgotten
make_session_id_as_given(cmd, sid, now) == sid

\* chat_cmd: if not session_id: session_id = f"session-{now}"; the other
\* commands leave session_id as given
make_session_id(cmd, sid, now) ==
  IF cmd = "chat" /\ ~Truthy(sid) THEN Some(S_session \o strftime(now)) ELSE sid

\* the trace options are read: trace id, (chat) session id, verbose lines,
\* get_common_options with parse_tags and parse_metadata
PrepareTrace(opts, now1, now2) ==
  /\ pc = "prepare"
  /\ now1 <= now2
  /\ options' = opts
  /\ LET tid == make_trace_id(prog, opts.trace_name, now1)
         sid == make_session_id(prog, opts.session_id, now2)
         shown == verbose_lines(prog, opts, tid, sid,
                                prog = "chat" /\ ~Truthy(opts.session_id), config)
         common == get_common_options(Some(tid), sid, opts.user_id,
                                      opts.environment, opts.tags,
                                      opts.metadata, opts.release)
     IN /\ trace_id' = tid
        /\ session_id' = sid
        /\ IF common.raised
             THEN /\ Exit(1, shown \o <<Line("Error: Invalid JSON in metadata: ",
                                              Val(opts.metadata))>>)
                  /\ UNCHANGED attr_options
             ELSE /\ attr_options' = common.value
                  /\ pc' = "create_handler"
                  /\ console' = console \o shown
                  /\ UNCHANGED exit_code
  /\ UNCHANGED <<config, lib, prog, inputs, input_text, langfuse_handler, objects,
                 scriptLocals, call, llm_result, result>>

\* try: langfuse_handler = get_langfuse_handler(**attr_options)
\* except ValueError: print, exit 1
CreateHandler ==
  /\ pc = "create_handler"
  /\ LET r == get_langfuse_handler(config, attr_options) IN
     /\ clients' = clients \o r.new_clients
     /\ handlers' = handlers \o r.new_handlers
     /\ IF r.raised
          THEN /\ Exit(1, <<Line("Langfuse Error: ", r.exc.msg)>>)
               /\ UNCHANGED langfuse_handler
          ELSE /\ langfuse_handler' = Len(handlers) + 1
               /\ pc' = "call"
               /\ UNCHANGED <<console, exit_code>>
  /\ UNCHANGED <<config, lib, prog, cliLocals, chains, invocations, lists,
                 scriptLocals, call, llm_result, result>>

(***************************************************************************)
(* Execution of an operation of src/agent.py                               *)
(***************************************************************************)
\* the first half of the operation named by the call frame c
begin(cfg, ls, c) ==
  CASE c.op = "summarize" ->
         summarize_begin(cfg, c.text, c.handler, c.trace_name)
    [] c.op = "analyze_text" ->
         analyze_text_begin(cfg, c.text, c.handler, c.trace_name, c.session_id)
    [] c.op = "chat" ->
         chat_begin(cfg, c.text, c.handler, ls, c.history, c.trace_name, c.session_id)
    [] c.op = "rag_query" ->
         rag_query_begin(cfg, c.text, c.context, c.handler, c.trace_name, c.session_id)

\* the operation is entered with frame c on the heap ls: it raises ValueError
\* at once, or builds its runnable and issues its invocation
BeginCall(c, ls) ==
  LET b == begin(config, ls, c) IN
  /\ call' = c
  /\ lists' = ls
  /\ chains' = chains \o b.built
  /\ invocations' = invocations \o b.issued
  /\ IF b.raised
       THEN /\ result' = Raise(b.exc)
            /\ pc' = "returned"
       ELSE /\ pc' = "llm"
            /\ UNCHANGED result

\* the operation each command calls
OpOf(cmd) ==
  CASE cmd = "summarize" -> "summarize"
    [] cmd = "analyze" -> "analyze_text"
    [] cmd = "chat" -> "chat"
    [] cmd = "rag" -> "rag_query"

\* the call each command makes: summarize_text(input_text, handler,
\* trace_name=trace_id); analyze_text / rag_query with trace_id and
\* session_id; chat_agent with chat_history=[] (a new list, at reference
\* fresh)
cli_call(cmd, ins, text, tid, sid, h, fresh) ==
  [op |-> OpOf(cmd),
   text |-> IF cmd \in {"chat", "rag"} THEN ins.prompt ELSE text,
   context |-> IF cmd = "rag" THEN text ELSE None,
   handler |-> h,
   history |-> IF cmd = "chat" THEN fresh ELSE 0,
   trace_name |-> Some(tid),
   session_id |-> IF cmd = "summarize" THEN None ELSE sid]

\* the line printed before the call
progress_line(cmd, ins) ==
  CASE cmd = "summarize" -> Line("Summarizing text...", <<>>)
    [] cmd = "analyze" -> Line("Analyzing text with tools...", <<>>)
    [] cmd = "chat" -> Line("Sending message: ", Val(ins.prompt))
    [] cmd = "rag" -> Line("Answering question with RAG...", <<>>)

\* CallOperation handing chat the pair of an earlier exchange of the session
CallOperation_resumes_history ==
  /\ pc = "call"
  /\ prog \in Commands
  /\ console' = console \o <<progress_line(prog, inputs)>>
  /\ BeginCall(cli_call(prog, inputs, input_text, trace_id, session_id,
                        langfuse_handler, Len(lists) + 1),
               IF prog = "chat"
                 THEN Append(lists, << <<Val(inputs.prompt), <<"o","k">> >> >>)
                 ELSE lists)
  /\ UNCHANGED <<config, lib, prog, cliLocals, langfuse_handler, clients, handlers,
                 scriptLocals, llm_result, exit_code>>

CallOperation ==
  /\ pc = "call"
  /\ prog \in Commands
  /\ console' = console \o <<progress_line(prog, inputs)>>
  /\ BeginCall(cli_call(prog, inputs, input_text, trace_id, session_id,
                        langfuse_handler, Len(lists) + 1),
               IF prog = "chat" THEN Append(lists, <<>>) ELSE lists)
  /\ UNCHANGED <<config, lib, prog, cliLocals, langfuse_handler, clients, handlers,
                 scriptLocals, llm_result, exit_code>>

\* invoke returns or raises, and the operation runs to its end
LLMResponds(llm) ==
  /\ pc = "llm"
  /\ pc' = "returned"
  /\ llm_result' = llm
  /\ CASE call.op = "summarize" ->
            /\ result' = summarize_end(config, llm)
            /\ UNCHANGED lists
       [] call.op = "analyze_text" ->
            /\ result' = analyze_text_end(config, call.text, llm)
            /\ UNCHANGED lists
       [] call.op = "rag_query" ->
            /\ result' = rag_query_end(config, llm)
            /\ UNCHANGED lists
       [] call.op = "chat" ->
            LET e == chat_end(config, lists, call.text, call.history, llm) IN
            /\ result' = e.result
            /\ lists' = e.lists
  /\ UNCHANGED <<config, lib, prog, cliLocals, langfuse_handler, clients, handlers,
                 chains, invocations, scriptLocals, call, console, exit_code>>

\* isinstance(e, ConnectionError), for the exception classes of the model
IsConnectionError(e) == e.type \in {"ConnectionError", "ConnectionResetError"}

\* the text a command shows in its result panel
shown_result(cmd, value) ==
  CASE cmd = "analyze" -> value.analysis
    [] cmd = "chat" -> value.response
    [] OTHER -> value

\* HandleResult with the exit after an unexpected error leaving code 0
HandleResult_unexpected_exit0 ==
  /\ pc = "returned"
  /\ prog \in Commands
  /\ IF result.raised
       THEN CASE IsConnectionError(result.exc) ->
                   Exit(1, <<Line("Connection Error: ", result.exc.msg)>>)
              [] result.exc.type = "ValueError" ->
                   Exit(1, <<Line("Error: ", result.exc.msg)>>)
              [] OTHER ->
                   Exit(0, <<Line("Unexpected error: ", result.exc.msg)>>)
       ELSE Exit(0, <<Line("Result panel: ", shown_result(prog, result.value)),
                      Line("View trace in Langfuse: ", config.LANGFUSE_HOST),
                      Line("Trace name: ", trace_id)>>
                    \o (IF prog = "chat"
                          THEN <<Line("Session ID: ", Val(session_id))>> ELSE <<>>)
                    \o <<Line("complete", <<>>)>>)
  /\ UNCHANGED <<config, lib, prog, cliLocals, langfuse_handler, objects,
                 scriptLocals, call, llm_result, result>>

\* the except clauses after the call, or the display of the result
HandleResult ==
  /\ pc = "returned"
  /\ prog \in Commands
  /\ IF result.raised
       THEN CASE IsConnectionError(result.exc) ->
                   Exit(1, <<Line("Connection Error: ", result.exc.msg)>>)
              [] result.exc.type = "ValueError" ->
                   Exit(1, <<Line("Error: ", result.exc.msg)>>)
              [] OTHER ->
                   Exit(1, <<Line("Unexpected error: ", result.exc.msg)>>
                           \o (IF options.verbose
                                 THEN <<Line("traceback", <<>>)>> ELSE <<>>))
       ELSE Exit(0, <<Line("Result panel: ", shown_result(prog, result.value)),
                      Line("View trace in Langfuse: ", config.LANGFUSE_HOST),
                      Line("Trace name: ", trace_id)>>
                    \o (IF prog = "chat"
                          THEN <<Line("Session ID: ", Val(session_id))>> ELSE <<>>)
                    \o <<Line("complete", <<>>)>>)
  /\ UNCHANGED <<config, lib, prog, cliLocals, langfuse_handler, objects,
                 scriptLocals, call, llm_result, result>>

(***************************************************************************)
(* examples/: a script that validates the configuration and then, in a     *)
(* loop, creates a handler and calls an operation, threading the chat      *)
(* history through the chat calls (03_sessions.py; 01, 02 and 05 call      *)
(* summarize, analyze_text and rag_query the same way)                     *)
(***************************************************************************)
Operations == {"summarize", "analyze_text", "chat", "rag_query"}
ScriptTexts == {None, Some(<<" ">>), Some(<<"h","i">>), Some(<<"y","o">>)}
ScriptContexts == {None, Some(<<"\n">>), Some(<<"d","o","c">>)}

Digits == <<"0","1","2","3","4","5","6","7","8","9">>
S_example_message == <<"e","x","a","m","p","l","e","-","m","e","s","s","a","g","e","-">>
S_example_session == <<"e","x","a","m","p","l","e","-","s","e","s","s","i","o","n">>

\* f"example-03-session-message-{i}"
script_trace_name(i) == S_example_message \o <<Digits[i + 1]>>

\* the attributes the script gives get_langfuse_handler in iteration i: the
\* trace name and, in the chat and RAG loops, the session id
script_attrs(op, i) ==
  [NoAttrs EXCEPT !.trace_name = Some(script_trace_name(i)),
                  !.session_id = IF op \in {"chat", "rag_query"}
                                   THEN Some(S_example_session) ELSE None]

\* main(): config.validate(); on ValueError print and return; else
\* chat_history = []
ScriptStart ==
  /\ pc = "start"
  /\ prog' = "script"
  /\ LET v == validate(config) IN
     IF v.raised
       THEN /\ Exit(0, <<Line("Configuration Error: ", v.exc.msg)>>)
            /\ UNCHANGED <<lists, chat_history>>
       ELSE /\ pc' = "script_loop"
            /\ lists' = Append(lists, <<>>)
            /\ chat_history' = Len(lists) + 1
            /\ UNCHANGED <<console, exit_code>>
  /\ UNCHANGED <<config, lib, cliLocals, langfuse_handler, clients, handlers, chains,
                 invocations, turn, call, llm_result, result>>

\* head of an iteration that is going to call op: handler =
\* get_langfuse_handler(trace_name=..., session_id=...); a ValueError is not
\* caught and ends the script
ScriptGetHandler(op) ==
  /\ pc = "script_loop"
  /\ turn < MaxTurns
  /\ call' = [NoCall EXCEPT !.op = op]
  /\ LET r == get_langfuse_handler(config, script_attrs(op, turn + 1)) IN
     /\ clients' = clients \o r.new_clients
     /\ handlers' = handlers \o r.new_handlers
     /\ IF r.raised
          THEN /\ Exit(1, <<Line("Traceback: ", r.exc.msg)>>)
               /\ UNCHANGED langfuse_handler
          ELSE /\ langfuse_handler' = Len(handlers) + 1
               /\ pc' = "script_call"
               /\ UNCHANGED <<console, exit_code>>
  /\ UNCHANGED <<config, lib, prog, cliLocals, chains, invocations, lists,
                 scriptLocals, llm_result, result>>

\* the call of the iteration
script_call(op, text, context, h, history, i) ==
  [op |-> op,
   text |-> text,
   context |-> IF op = "rag_query" THEN context ELSE None,
   handler |-> h,
   history |-> IF op = "chat" THEN history ELSE 0,
   trace_name |-> Some(script_trace_name(i)),
   session_id |-> IF op \in {"chat", "rag_query"}
                    THEN Some(S_example_session) ELSE None]

ScriptCall(text, context) ==
  /\ pc = "script_call"
  /\ BeginCall(script_call(call.op, text, context, langfuse_handler,
                           chat_history, turn + 1),
               lists)
  /\ UNCHANGED <<config, lib, prog, cliLocals, langfuse_handler, clients, handlers,
                 scriptLocals, llm_result, console, exit_code>>

\* response, chat_history = chat(...): the history variable is rebound to the
\* returned list; except Exception: print and break
ScriptHandleResult ==
  /\ pc = "returned"
  /\ prog = "script"
  /\ IF result.raised
       THEN /\ console' = console \o <<Line("Error: ", result.exc.msg)>>
            /\ pc' = "script_end"
            /\ UNCHANGED <<chat_history, turn>>
       ELSE /\ console' = console \o
                 <<Line("Assistant: ",
                        shown_result(IF call.op = "chat" THEN "chat"
                                     ELSE IF call.op = "analyze_text" THEN "analyze"
                                     ELSE "other", result.value))>>
            /\ chat_history' = IF call.op = "chat"
                                 THEN result.value.updated_history
                                 ELSE chat_history
            /\ turn' = turn + 1
            /\ pc' = "script_loop"
  /\ UNCHANGED <<config, lib, prog, cliLocals, langfuse_handler, objects, call,
                 llm_result, result, exit_code>>

\* the loop is over (no message left, or break): final lines, normal end
ScriptFinish ==
  /\ pc \in {"script_loop", "script_end"}
  /\ Exit(0, <<Line("Session ID: ", S_example_session)>>)
  /\ UNCHANGED <<config, lib, prog, cliLocals, langfuse_handler, objects,
                 scriptLocals, call, llm_result, result>>

(***************************************************************************)
(* Specification                                                           *)
(***************************************************************************)
(***************************************************************************)
(* src/tools.py                                                            *)
(***************************************************************************)
\* text.split(): the maximal runs of non-whitespace characters
RECURSIVE SplitWhitespaceAcc(_, _)
SplitWhitespaceAcc(s, cur) ==
  LET done == IF cur = <<>> THEN <<>> ELSE <<cur>> IN
  IF s = <<>> THEN done
  ELSE IF Head(s) \in Whitespace THEN done \o SplitWhitespaceAcc(Tail(s), <<>>)
  ELSE SplitWhitespaceAcc(Tail(s), Append(cur, Head(s)))

SplitWhitespace(s) == SplitWhitespaceAcc(s, <<>>)

\* the character class [.!?]
SentenceEnd == {".", "!", "?"}

\* re.split(r'[.!?]+', text): the segments between maximal runs of
\* sentence-ending characters, empty segments at either end kept
RECURSIVE ReSplitAcc(_, _, _)
ReSplitAcc(s, cur, in_run) ==
  IF s = <<>> THEN <<cur>>
  ELSE IF Head(s) \in SentenceEnd
    THEN IF in_run THEN ReSplitAcc(Tail(s), <<>>, TRUE)
         ELSE <<cur>> \o ReSplitAcc(Tail(s), <<>>, TRUE)
  ELSE ReSplitAcc(Tail(s), Append(cur, Head(s)), FALSE)

ReSplit(s) == ReSplitAcc(s, <<>>, FALSE)

\* count_words(text)
count_words(text) ==
  [word_count |-> Len(SplitWhitespace(text)),
   character_count |-> Len(text),
   sentence_count |-> Len(SelectSeq(ReSplit(text), LAMBDA s : Strip(s) # <<>>))]

StopWords ==
  {<<"t","h","e">>, <<"a">>, <<"a","n">>, <<"a","n","d">>, <<"o","r">>,
   <<"b","u","t">>, <<"i","n">>, <<"o","n">>, <<"a","t">>, <<"t","o">>,
   <<"f","o","r">>, <<"o","f">>, <<"w","i","t","h">>, <<"b","y">>,
   <<"f","r","o","m">>, <<"a","s">>, <<"i","s">>, <<"w","a","s">>,
   <<"a","r","e">>, <<"w","e","r","e">>, <<"b","e">>, <<"b","e","e","n">>,
   <<"b","e","i","n","g">>, <<"h","a","v","e">>, <<"h","a","s">>,
   <<"h","a","d">>, <<"d","o">>, <<"d","o","e","s">>, <<"d","i","d">>,
   <<"w","i","l","l">>, <<"w","o","u","l","d">>, <<"c","o","u","l","d">>,
   <<"s","h","o","u","l","d">>, <<"m","a","y">>, <<"m","i","g","h","t">>,
   <<"m","u","s","t">>, <<"c","a","n">>, <<"t","h","i","s">>,
   <<"t","h","a","t">>, <<"t","h","e","s","e">>, <<"t","h","o","s","e">>,
   <<"i">>, <<"y","o","u">>, <<"h","e">>, <<"s","h","e">>, <<"i","t">>,
   <<"w","e">>, <<"t","h","e","y">>}

\* the character class \w
Digits09 == {"0", "1", "2", "3", "4", "5", "6", "7", "8", "9"}
WordChars ==
  {UpperChars[i] : i \in 1..26} \cup {LowerChars[i] : i \in 1..26}
    \cup Digits09 \cup {"_"}

\* re.findall(r'\b\w+\b', s): the maximal runs of word characters
RECURSIVE FindWordsAcc(_, _)
FindWordsAcc(s, cur) ==
  LET done == IF cur = <<>> THEN <<>> ELSE <<cur>> IN
  IF s = <<>> THEN done
  ELSE IF Head(s) \in WordChars THEN FindWordsAcc(Tail(s), Append(cur, Head(s)))
  ELSE done \o FindWordsAcc(Tail(s), <<>>)

FindWords(s) == FindWordsAcc(s, <<>>)

\* [w for w in words if w not in stop_words and len(w) > 3]
MeaningfulWords(words) ==
  SelectSeq(words, LAMBDA w : w \notin StopWords /\ Len(w) > 3)

\* word_freq[word] = word_freq.get(word, 0) + 1 over the words: the dict as
\* its <<word, count>> items in insertion order
RECURSIVE CountFrequencies(_, _)
CountFrequencies(words, freq) ==
  IF words = <<>> THEN freq
  ELSE LET w == Head(words)
           at == {i \in 1..Len(freq) : freq[i][1] = w}
       IN IF at = {}
            THEN CountFrequencies(Tail(words), Append(freq, <<w, 1>>))
            ELSE LET i == CHOOSE j \in at : TRUE IN
                 CountFrequencies(Tail(words),
                                  [freq EXCEPT ![i] = <<w, freq[i][2] + 1>>])

\* sorted(items, key=lambda x: x[1], reverse=True): a stable sort, items of
\* equal count keep their order
RECURSIVE SortedByCount(_)
SortedByCount(items) ==
  IF items = <<>> THEN <<>>
  ELSE LET rest == SortedByCount(SubSeq(items, 1, Len(items) - 1))
           x == items[Len(items)]
           before == SelectSeq(rest, LAMBDA y : y[2] >= x[2])
           after == SelectSeq(rest, LAMBDA y : y[2] < x[2])
       IN before \o <<x>> \o after

\* seq[:n], n negative counting from the end
SliceTo(seq, n) ==
  IF n >= 0 THEN SubSeq(seq, 1, IF n < Len(seq) THEN n ELSE Len(seq))
  ELSE SubSeq(seq, 1, IF Len(seq) + n > 0 THEN Len(seq) + n ELSE 0)

\* extract_keywords(text, n)
extract_keywords(text, n) ==
  LET words == FindWords(Lower(text))
      word_freq == CountFrequencies(MeaningfulWords(words), <<>>)
      sorted_keywords == SortedByCount(word_freq)
  IN [keywords |-> SliceTo(sorted_keywords, n),
      total_unique_keywords |-> Len(word_freq)]

(***************************************************************************)
(* tracing.py called directly: a handler is built from keyword arguments   *)
(* and its trace metadata is extracted                                     *)
(***************************************************************************)
\* metadata arguments: none, an empty dict, a dict with a user key, a dict
\* whose key is one of the langfuse_ keys
MetadataArgs ==
  {None,
   Some([type |-> "dict", keys |-> <<>>, size |-> 0, items |-> <<>>]),
   Some([type |-> "dict", keys |-> << <<"k">> >>, size |-> 1,
         items |-> [k |-> <<"v">>]]),
   Some([type |-> "dict",
         keys |-> << <<"l","a","n","g","f","u","s","e","_","u","s","e","r","_","i","d">> >>,
         size |-> 1, items |-> [langfuse_user_id |-> <<"x">>]])}

\* keyword arguments of get_langfuse_handler
TraceAttrs ==
  [trace_name : {None, Some(<<>>), Some(<<"t","1">>)},
   session_id : {None, Some(<<"s","1">>)},
   user_id : {None, Some(<<"u","1">>)},
   environment : {None, Some(<<"d","e","v">>)},
   tags : {None, Some(<<>>), Some(<< <<"a">>, <<"b">> >>)},
   metadata : MetadataArgs,
   release : {None, Some(<<"v","1">>)}]

\* handler = get_langfuse_handler(**attrs)
LibGetHandler(attrs) ==
  /\ pc = "start"
  /\ lib = <<>>
  /\ LET r == get_langfuse_handler(config, attrs) IN
     /\ clients' = clients \o r.new_clients
     /\ handlers' = handlers \o r.new_handlers
     /\ lib' = <<[fn |-> "get_langfuse_handler", args |-> attrs,
                  ret |-> IF r.raised THEN Raise(r.exc) ELSE Return(Len(handlers) + 1)]>>
  /\ UNCHANGED <<config, prog, pc, cliLocals, langfuse_handler, chains,
                 invocations, lists, scriptLocals, call, llm_result, result,
                 console, exit_code>>

\* get_trace_metadata(handler) on the handler just built
LibGetTraceMetadata ==
  /\ pc = "start"
  /\ Len(lib) = 1
  /\ lib[1].fn = "get_langfuse_handler"
  /\ ~lib[1].ret.raised
  /\ lib' = Append(lib, [fn |-> "get_trace_metadata", args |-> lib[1].ret.value,
                         ret |-> get_trace_metadata(handlers[lib[1].ret.value])])
  /\ UNCHANGED <<config, prog, pc, cliLocals, langfuse_handler, objects,
                 scriptLocals, call, llm_result, result, console, exit_code>>

NextTracing ==
  \/ \E attrs \in TraceAttrs : LibGetHandler(attrs)
  \/ LibGetTraceMetadata

SpecTracing == Init /\ [][NextTracing]_vars

(***************************************************************************)
(* tools.py called directly, as the analysis agent's executor calls a tool *)
(* with the arguments the LLM chose                                        *)
(***************************************************************************)
\* pieces the texts given to the tools are made of: a capitalised word, a
\* word, a stop word of four letters, a short word ending a sentence, a run
\* of sentence ends, a line break
ToolTokens ==
  {<<"T","r","e","e"," ">>, <<"b","i","r","d">>, <<"t","h","a","t"," ">>,
   <<"o","w","l",".">>, <<"?","!"," ">>, <<"\n">>}

RECURSIVE Concat(_)
Concat(parts) == IF parts = <<>> THEN <<>> ELSE Head(parts) \o Concat(Tail(parts))

ToolTexts ==
  {Concat(parts) : parts \in UNION {[1..k -> ToolTokens] : k \in 0..MaxTokens}}

\* values of n, 5 being the default
KeywordCounts == {-1, 0, 1, 2, 5}

\* count_words.invoke({"text": text})
CallCountWords(text) ==
  /\ pc = "start"
  /\ lib = <<>>
  /\ lib' = <<[fn |-> "count_words", args |-> [text |-> text],
               ret |-> count_words(text)]>>
  /\ UNCHANGED <<config, prog, pc, cliLocals, langfuse_handler, objects,
                 scriptLocals, call, llm_result, result, console, exit_code>>

\* extract_keywords.invoke({"text": text, "n": n})
CallExtractKeywords(text, n) ==
  /\ pc = "start"
  /\ lib = <<>>
  /\ lib' = <<[fn |-> "extract_keywords", args |-> [text |-> text, n |-> n],
               ret |-> extract_keywords(text, n)]>>
  /\ UNCHANGED <<config, prog, pc, cliLocals, langfuse_handler, objects,
                 scriptLocals, call, llm_result, result, console, exit_code>>

\* tools.py reads no configuration: the tools are called with nothing set in
\* the environment
InitTools ==
  /\ Init
  /\ config = Config([n \in {"OLLAMA_MODEL", "OLLAMA_BASE_URL", "LANGFUSE_PUBLIC_KEY",
                             "LANGFUSE_SECRET_KEY", "LANGFUSE_HOST"} |-> None])

NextTools ==
  \/ \E text \in ToolTexts : CallCountWords(text)
  \/ \E text \in ToolTexts, n \in KeywordCounts : CallExtractKeywords(text, n)

SpecTools == InitTools /\ [][NextTools]_vars

(***************************************************************************)
(* parse_tags of main.py called directly on the --tags strings             *)
(***************************************************************************)
\* the characters of the --tags strings
TagChars == {"a", "b", " ", ","}

\* the values of --tags: absent, or a string
TagsArgs ==
  {None} \cup {Some(s) : s \in UNION {[1..k -> TagChars] : k \in 0..MaxTagsLen}}

\* parse_tags(tags_str)
CallParseTags(tags_str) ==
  /\ pc = "start"
  /\ lib = <<>>
  /\ lib' = <<[fn |-> "parse_tags", args |-> tags_str, ret |-> parse_tags(tags_str)]>>
  /\ UNCHANGED <<config, prog, pc, cliLocals, langfuse_handler, objects,
                 scriptLocals, call, llm_result, result, console, exit_code>>

NextTags == \E tags_str \in TagsArgs : CallParseTags(tags_str)

SpecTags == Init /\ [][NextTags]_vars

(***************************************************************************)
(* agent.py called directly: a handler is built, then one operation is     *)
(* called with the trace name and session id a caller may give             *)
(***************************************************************************)
AgentTexts == {Some(<<" ">>), Some(<<"h","i">>)}
AgentTraceNames == {None, Some(<<>>), Some(<<"t","1">>)}
AgentSessionIds == {None, Some(<<>>), Some(<<"s","1">>)}

\* op(text, handler, trace_name=..., session_id=...) with the handler just
\* built; chat is called without a history, rag_query with a context
LibCallOperation(op, text, trace_name, sid) ==
  /\ pc = "start"
  /\ Len(lib) = 1
  /\ lib[1].fn = "get_langfuse_handler"
  /\ ~lib[1].ret.raised
  /\ lib' = Append(lib, [fn |-> op, args |-> <<text, trace_name, sid>>, ret |-> None])
  /\ BeginCall([op |-> op,
                text |-> text,
                context |-> IF op = "rag_query" THEN Some(<<"d","o","c">>) ELSE None,
                handler |-> lib[1].ret.value,
                history |-> 0,
                trace_name |-> trace_name,
                session_id |-> sid],
               lists)
  /\ UNCHANGED <<config, prog, cliLocals, langfuse_handler, clients, handlers,
                 scriptLocals, llm_result, console, exit_code>>

NextAgent ==
  \/ LibGetHandler(NoAttrs)
  \/ \E op \in Operations, text \in AgentTexts,
        trace_name \in AgentTraceNames, sid \in AgentSessionIds :
       LibCallOperation(op, text, trace_name, sid)
  \/ \E llm \in LLMOutcomes : LLMResponds(llm)

SpecAgent == Init /\ [][NextAgent]_vars

Next ==
  \/ \E cmd \in Commands, text \in TextArgs, file \in FileArgs, prompt \in PromptArgs :
       /\ cmd = "chat" => text = None /\ file = None
       /\ cmd \in {"summarize", "analyze"} => prompt = Some(<<>>)
       /\ CmdStart(cmd, text, file, prompt)
  \/ \E fs \in FileStates : LoadInput(fs)
  \/ ValidateConfig
  \/ \E opts \in Options, now1 \in Clock, now2 \in Clock : PrepareTrace(opts, now1, now2)
  \/ CreateHandler
  \/ CallOperation
  \/ \E llm \in LLMOutcomes : LLMResponds(llm)
  \/ HandleResult
  \/ ScriptStart
  \/ \E op \in Operations : ScriptGetHandler(op)
  \/ \E text \in ScriptTexts, context \in ScriptContexts : ScriptCall(text, context)
  \/ ScriptHandleResult
  \/ ScriptFinish

Spec == Init /\ [][Next]_vars

(***************************************************************************)
(* Properties                                                              *)
(***************************************************************************)
\* an Optional[str] that is a non-empty string
NonEmpty(o) == o # None /\ Len(Val(o)) > 0

HasCredentials(cfg) ==
  NonEmpty(cfg.LANGFUSE_PUBLIC_KEY) /\ NonEmpty(cfg.LANGFUSE_SECRET_KEY)

\* first position at which pat occurs in s (0: nowhere)
IndexOf(s, pat) ==
  LET starts == {i \in 1..(Len(s) - Len(pat) + 1) :
                   SubSeq(s, i, i + Len(pat) - 1) = pat}
  IN IF starts = {} THEN 0
     ELSE CHOOSE i \in starts : \A j \in starts : i <= j

LastLine == console[Len(console)]

\* C1: no Langfuse client and no callback handler is constructed and no
\* invocation is issued unless both LANGFUSE_PUBLIC_KEY and
\* LANGFUSE_SECRET_KEY are non-empty; with either one missing
\* get_langfuse_handler raises ValueError constructing nothing, and a CLI
\* command does not get past its configuration validation and exits with
\* code 1.
C1_CredentialsBeforeTrace ==
  /\ (clients # <<>> \/ handlers # <<>> \/ invocations # <<>>)
       => HasCredentials(config)
  /\ ~HasCredentials(config) =>
       /\ LET r == get_langfuse_handler(config, attr_options) IN
          /\ r.raised
          /\ r.exc.type = "ValueError"
          /\ r.new_clients = <<>>
          /\ r.new_handlers = <<>>
       /\ prog \in Commands =>
            /\ pc \in {"start", "load_input", "validate_config", "exit"}
            /\ pc = "exit" => exit_code = 1

\* C1 witness: a command given its input was stopped by the configuration
\* validation because only the secret key is missing
C1_Witness ==
  /\ prog \in Commands
  /\ pc = "exit"
  /\ exit_code = 1
  /\ NonEmpty(config.LANGFUSE_PUBLIC_KEY)
  /\ ~NonEmpty(config.LANGFUSE_SECRET_KEY)
  /\ console # <<>>
  /\ LastLine.label = "Configuration Error: "
  /\ clients = <<>> /\ handlers = <<>> /\ invocations = <<>>

\* C2: Config.validate raises ValueError if and only if LANGFUSE_PUBLIC_KEY
\* or LANGFUSE_SECRET_KEY is unset or empty; the message names exactly the
\* missing variables, LANGFUSE_PUBLIC_KEY before LANGFUSE_SECRET_KEY; and the
\* call changes no configuration value.  Stated on the step of a command
\* that calls it: the step ends in the configuration error exactly when a
\* key is missing.
C2_ValidateContract ==
  [][pc = "validate_config" =>
       LET noPublic == ~NonEmpty(config.LANGFUSE_PUBLIC_KEY)
           noSecret == ~NonEmpty(config.LANGFUSE_SECRET_KEY)
           msg == console'[Len(console')].arg
       IN /\ config' = config
          /\ (pc' = "exit") <=> (noPublic \/ noSecret)
          /\ (pc' # "exit") => (pc' = "prepare" /\ console' = console)
          /\ (pc' = "exit") =>
               /\ console'[Len(console')].label = "Configuration Error: "
               /\ validate(config).exc.type = "ValueError"
               /\ (IndexOf(msg, S_LANGFUSE_PUBLIC_KEY) > 0) <=> noPublic
               /\ (IndexOf(msg, S_LANGFUSE_SECRET_KEY) > 0) <=> noSecret
               /\ (noPublic /\ noSecret) =>
                    IndexOf(msg, S_LANGFUSE_PUBLIC_KEY)
                      < IndexOf(msg, S_LANGFUSE_SECRET_KEY)
  ]_vars

\* C2 witness: validate has raised with both keys missing, one unset and one
\* empty, and the message names both
C2_Witness ==
  /\ prog \in Commands
  /\ pc = "exit"
  /\ console # <<>>
  /\ LastLine.label = "Configuration Error: "
  /\ config.LANGFUSE_PUBLIC_KEY = None
  /\ config.LANGFUSE_SECRET_KEY = Some(<<>>)
  /\ IndexOf(LastLine.arg, S_LANGFUSE_PUBLIC_KEY) > 0
  /\ IndexOf(LastLine.arg, S_LANGFUSE_SECRET_KEY) > 0

\* the metadata dict of an invocation's config ({} when the config has none)
MetadataOf(inv) ==
  IF "metadata" \in DOMAIN inv.config THEN inv.config.metadata ELSE <<>>

\* the handler object an invocation's callbacks list starts with
HandlerOf(inv) == handlers[inv.config.callbacks[1]]

\* C3: every invocation carries in its metadata each non-empty trace
\* attribute (session id, user id, tags, environment, release) that was
\* given to get_langfuse_handler for the handler the invocation uses.
C3_AttributesInMetadata ==
  \A i \in 1..Len(invocations) :
    LET md == MetadataOf(invocations[i])
        h == HandlerOf(invocations[i])
        carried(o) == \E k \in DOMAIN md : md[k] = Val(o)
    IN /\ Truthy(h._langfuse_session_id) => carried(h._langfuse_session_id)
       /\ Truthy(h._langfuse_user_id) => carried(h._langfuse_user_id)
       /\ Truthy(h._langfuse_environment) => carried(h._langfuse_environment)
       /\ Truthy(h._langfuse_release) => carried(h._langfuse_release)
       /\ Truthy(h._langfuse_tags) =>
            \E k \in DOMAIN md : k \in {"tags", "langfuse_tags"}

\* C4: in every CLI command the session_id in the metadata of the
\* invocation equals the session id given with --session-id.
C4_SessionIdInMetadata ==
  prog \in Commands =>
    \A i \in 1..Len(invocations) :
      NonEmpty(options.session_id) =>
        /\ "session_id" \in DOMAIN MetadataOf(invocations[i])
        /\ MetadataOf(invocations[i]).session_id = Val(options.session_id)

\* C5: a successful chat returns the response and a new list that is the
\* input history with the one pair (message, response) appended, earlier
\* pairs unchanged and in order; no existing list is ever modified; a failed
\* chat returns no history.
C5_ChatHistoryFrame ==
  [][/\ \A r \in 1..Len(lists) : r <= Len(lists') /\ lists'[r] = lists[r]
     /\ (pc = "llm" /\ call.op = "chat") =>
          IF result'.raised
            THEN /\ lists' = lists
                 /\ "value" \notin DOMAIN result'
            ELSE LET new == result'.value.updated_history
                     old == HistoryOf(lists, call.history)
                 IN /\ new \notin 1..Len(lists)
                    /\ new \in 1..Len(lists')
                    /\ result'.value.response = llm_result'.value
                    /\ Len(lists'[new]) = Len(old) + 1
                    /\ \A i \in 1..Len(old) : lists'[new][i] = old[i]
                    /\ lists'[new][Len(old) + 1]
                         = <<Val(call.text), result'.value.response>>
     /\ (pc \in {"call", "script_call"} /\ call'.op = "chat" /\ pc' = "returned") =>
          /\ result'.raised
          /\ "value" \notin DOMAIN result'
  ]_vars

\* C5 witness: a chat called with a history of one pair has returned a
\* different list holding two pairs, the input list still holding one
C5_Witness ==
  /\ pc = "returned"
  /\ call.op = "chat"
  /\ ~result.raised
  /\ call.history >= 1
  /\ Len(lists[call.history]) = 1
  /\ result.value.updated_history # call.history
  /\ Len(lists[result.value.updated_history]) = 2

IsChat(inv) == inv.op = "chat"

\* the chat invocations issued so far, and the message sent in the i-th
ChatInvocations == SelectSeq(invocations, IsChat)
Sent(i) == ChatInvocations[i].input[Len(ChatInvocations[i].input)].content

Blank(o) == o = None \/ \A i \in 1..Len(Val(o)) : Val(o)[i] \in Whitespace

\* C7: an operation called with a None, empty or whitespace-only text,
\* message, question or context raises ValueError without building a chain
\* or agent and without issuing an invocation; rag_query reports the
\* question before the context.
C7_BlankInputRejected ==
  [][(pc = "call" \/ pc = "script_call") =>
       LET c == call'
           blankText == Blank(c.text)
           blankContext == c.op = "rag_query" /\ Blank(c.context)
       IN (blankText \/ blankContext) =>
            /\ pc' = "returned"
            /\ result'.raised
            /\ result'.exc.type = "ValueError"
            /\ chains' = chains
            /\ invocations' = invocations
            /\ (c.op = "rag_query" /\ blankText) => result'.exc.msg = MsgQuestionEmpty
            /\ (c.op = "rag_query" /\ ~blankText) => result'.exc.msg = MsgContextEmpty
  ]_vars

\* C7 witness: rag_query called with no question and a whitespace-only
\* context has raised the question error, nothing built, nothing invoked
C7_Witness ==
  /\ pc = "returned"
  /\ call.op = "rag_query"
  /\ call.text = None
  /\ call.context = Some(<<"\n">>)
  /\ result.raised
  /\ result.exc.msg = MsgQuestionEmpty
  /\ chains = <<>>
  /\ invocations = <<>>

\* the messages of LLMErrors that contain "connection" or "refused" in any
\* letter case
MatchingMessages ==
  {<<"C","o","n","n","e","c","t","i","o","n"," ","r","e","f","u","s","e","d">>,
   <<"R","E","F","U","S","E","D">>,
   <<"C","O","N","N","E","C","T","I","O","N"," ","r","e","s","e","t">>}

\* C8: when the invocation raises an exception whose message contains
\* "connection" or "refused" in any letter case the operation raises
\* ConnectionError with that exception as its cause; any other exception of
\* the invocation is raised unchanged; in both cases nothing is returned.
C8_ConnectionErrorWrapping ==
  [][(pc = "llm" /\ pc' = "returned" /\ llm_result'.raised) =>
       /\ result'.raised
       /\ "value" \notin DOMAIN result'
       /\ IF llm_result'.exc.msg \in MatchingMessages
            THEN /\ result'.exc.type = "ConnectionError"
                 /\ result'.exc.cause = Some(llm_result'.exc)
            ELSE result'.exc = llm_result'.exc
  ]_vars

\* C8 witness: analyze_text has turned an upper-case "REFUSED" into a
\* ConnectionError chained from it
C8_Witness ==
  /\ pc = "returned"
  /\ call.op = "analyze_text"
  /\ llm_result.raised
  /\ llm_result.exc.msg = <<"R","E","F","U","S","E","D">>
  /\ result.raised
  /\ result.exc.type = "ConnectionError"
  /\ result.exc.cause = Some(llm_result.exc)

\* C9: summarize, analyze and rag get past their input validation only when
\* exactly one of the two inputs has a (non-empty) value; otherwise the
\* command exits with code 1 having printed only the input error: no
\* configuration error, no client, no handler, no chain, no invocation.
C9_ExactlyOneInput ==
  prog \in {"summarize", "analyze", "rag"} =>
    LET one == NonEmpty(inputs.text) # NonEmpty(inputs.file) IN
    /\ pc # "exit" => one
    /\ ~one =>
         /\ pc = "exit"
         /\ exit_code = 1
         /\ Len(console) = 1
         /\ console[1].label \in {"Error: Either input must be provided",
                                  "Error: Provide either, not both"}
         /\ clients = <<>> /\ handlers = <<>>
         /\ chains = <<>> /\ invocations = <<>>

\* C9 witness: rag given both --context and --context-file has exited
C9_Witness ==
  /\ prog = "rag"
  /\ NonEmpty(inputs.text)
  /\ NonEmpty(inputs.file)
  /\ pc = "exit"
  /\ exit_code = 1
  /\ console[1].label = "Error: Provide either, not both"

\* C10: the callbacks list of every invocation holds exactly one element,
\* the handler passed to the operation; in a CLI command it is the one
\* handler the run created, which holds the run's credentials and trace
\* attributes.
C10_SingleHandlerCallback ==
  \A i \in 1..Len(invocations) :
    LET cb == invocations[i].config.callbacks IN
    /\ Len(cb) = 1
    /\ cb[1] \in 1..Len(handlers)
    /\ (pc = "llm" /\ i = Len(invocations)) => cb = <<call.handler>>
    /\ prog \in Commands =>
         /\ cb = <<langfuse_handler>>
         /\ Len(handlers) = 1
         /\ handlers[1] =
              [public_key |-> config.LANGFUSE_PUBLIC_KEY,
               secret_key |-> config.LANGFUSE_SECRET_KEY,
               host |-> config.LANGFUSE_HOST,
               _langfuse_trace_name |-> Some(trace_id),
               _langfuse_session_id |-> session_id,
               _langfuse_user_id |-> options.user_id,
               _langfuse_environment |-> options.environment,
               _langfuse_tags |-> parse_tags(options.tags),
               _langfuse_custom_metadata |-> parse_metadata(options.metadata).value,
               _langfuse_release |-> options.release]

\* C10 witness: the invocation of a rag run is in flight with the run's
\* handler, which holds the user id and the two tags given
C10_Witness ==
  /\ prog = "rag"
  /\ pc = "llm"
  /\ Len(invocations) = 1
  /\ invocations[1].config.callbacks = <<1>>
  /\ handlers[1]._langfuse_user_id = Some(<<"u","1">>)
  /\ handlers[1]._langfuse_tags = Some(<< <<"a">>, <<"b">> >>)

\* C11: the metadata attribute a CLI command builds from --metadata is
\* either absent (None) or a string-keyed map (a dict), and a command given
\* any other --metadata value has exited with code 1.
C11_MetadataIsMap ==
  prog \in Commands =>
    /\ attr_options.metadata = None \/ Val(attr_options.metadata).type = "dict"
    /\ (pc = "create_handler" /\ Truthy(options.metadata)) =>
         options.metadata = Some(JsonObject)

\* the attribute fields of a handler and the key get_trace_metadata gives each
AttrKeys ==
  [_langfuse_trace_name |-> "langfuse_name",
   _langfuse_session_id |-> "langfuse_session_id",
   _langfuse_user_id |-> "langfuse_user_id",
   _langfuse_environment |-> "langfuse_environment",
   _langfuse_tags |-> "langfuse_tags",
   _langfuse_release |-> "langfuse_release"]

\* the get_trace_metadata calls made directly
TraceMetadataCalls == {i \in 1..Len(lib) : lib[i].fn = "get_trace_metadata"}

\* C12: get_trace_metadata of a handler built by get_langfuse_handler
\* returns a langfuse_ key for exactly the attributes given non-empty, each
\* with the value given, and an empty map when no attribute and no custom
\* metadata was given.
C12_TraceMetadataRoundTrip ==
  \A i \in TraceMetadataCalls :
    LET h == handlers[lib[i].args]
        r == lib[i].ret
    IN /\ ~r.raised
       /\ \A a \in DOMAIN AttrKeys :
            /\ AttrKeys[a] \in DOMAIN r.value <=> Truthy(h[a])
            /\ Truthy(h[a]) => r.value[AttrKeys[a]] = Val(h[a])
       /\ ((\A a \in DOMAIN AttrKeys : ~Truthy(h[a]))
            /\ (h._langfuse_custom_metadata = None
                  \/ Val(h._langfuse_custom_metadata).size = 0))
           => DOMAIN r.value = {}

\* C13: the configuration is fixed when the config module is loaded; no
\* step of a command, of Config.validate, of get_langfuse_handler or of an
\* agent operation changes OLLAMA_MODEL, OLLAMA_BASE_URL, LANGFUSE_PUBLIC_KEY,
\* LANGFUSE_SECRET_KEY or LANGFUSE_HOST.
C13_ConfigReadOnly ==
  [][/\ config'.OLLAMA_MODEL = config.OLLAMA_MODEL
     /\ config'.OLLAMA_BASE_URL = config.OLLAMA_BASE_URL
     /\ config'.LANGFUSE_PUBLIC_KEY = config.LANGFUSE_PUBLIC_KEY
     /\ config'.LANGFUSE_SECRET_KEY = config.LANGFUSE_SECRET_KEY
     /\ config'.LANGFUSE_HOST = config.LANGFUSE_HOST]_vars

\* C13 witness: a command run with a host set in the environment has
\* validated the configuration, built its handler with that host and had its
\* invocation answered
C13_Witness ==
  /\ prog \in Commands
  /\ pc = "exit"
  /\ exit_code = 0
  /\ Len(invocations) = 1
  /\ config.LANGFUSE_HOST # DefaultHost
  /\ handlers[1].host = config.LANGFUSE_HOST

\* the direct calls of one library function
LibCalls(name) == {i \in 1..Len(lib) : lib[i].fn = name}

\* positions where a maximal whitespace-free run of the text starts
WordStarts(text) ==
  {i \in 1..Len(text) :
     text[i] \notin Whitespace /\ (i = 1 \/ text[i - 1] \in Whitespace)}

\* positions where a segment between runs of '.', '!' and '?' starts that
\* holds at least one non-whitespace character
SentenceStarts(text) ==
  {i \in 1..Len(text) :
     /\ text[i] \notin SentenceEnd
     /\ i = 1 \/ text[i - 1] \in SentenceEnd
     /\ \E j \in i..Len(text) :
          /\ text[j] \notin Whitespace
          /\ \A k \in i..j : text[k] \notin SentenceEnd}

\* C15: count_words(text) returns a dictionary with the entries word_count,
\* char_count and sentence_count: the number of maximal whitespace-free
\* runs, the length of the text, and the number of segments between runs of
\* '.', '!' and '?' that hold a non-whitespace character.
C15_CountWords ==
  \A i \in LibCalls("count_words") :
    LET text == lib[i].args.text
        r == lib[i].ret
    IN /\ DOMAIN r = {"word_count", "char_count", "sentence_count"}
       /\ r.word_count = Cardinality(WordStarts(text))
       /\ r.char_count = Len(text)
       /\ r.sentence_count = Cardinality(SentenceStarts(text))

\* the distinct lowercased words of the text that are no stop words and
\* longer than 3 characters
QualifyingWords(text) ==
  LET ws == FindWords(Lower(text)) IN
  {ws[j] : j \in {k \in 1..Len(ws) : ws[k] \notin StopWords /\ Len(ws[k]) > 3}}

\* how often the lowercased text holds the word
Occurrences(text, w) ==
  LET ws == FindWords(Lower(text)) IN Cardinality({j \in 1..Len(ws) : ws[j] = w})

\* C16: extract_keywords(text, n) returns exactly
\* min(max(n, 0), total_unique_keywords) keywords, each a qualifying word of
\* the text with its number of occurrences, no omitted qualifying word being
\* strictly more frequent than a returned one, and total_unique_keywords is
\* the number of distinct qualifying words.
C16_ExtractKeywords ==
  \A i \in LibCalls("extract_keywords") :
    LET text == lib[i].args.text
        n == lib[i].args.n
        r == lib[i].ret
        kw == r.keywords
        returned == {kw[j][1] : j \in 1..Len(kw)}
        wanted == IF n < 0 THEN 0 ELSE n
    IN /\ Len(kw) = (IF wanted < r.total_unique_keywords
                       THEN wanted ELSE r.total_unique_keywords)
       /\ Cardinality(returned) = Len(kw)
       /\ \A j \in 1..Len(kw) :
            /\ kw[j][1] \in QualifyingWords(text)
            /\ kw[j][2] = Occurrences(text, kw[j][1])
       /\ \A w \in QualifyingWords(text) \ returned :
            \A j \in 1..Len(kw) : Occurrences(text, w) <= kw[j][2]
       /\ r.total_unique_keywords = Cardinality(QualifyingWords(text))

\* the place of each step of a command in the order of the steps
StepRank(p) ==
  CASE p = "start" -> 0
    [] p = "load_input" -> 1
    [] p = "validate_config" -> 2
    [] p = "prepare" -> 3
    [] p = "create_handler" -> 4
    [] p = "call" -> 5
    [] p = "llm" -> 6
    [] p = "returned" -> 7
    [] p = "exit" -> 8

\* the labels of the lines printed so far
Printed == {console[i].label : i \in 1..Len(console)}

\* C17: a command performs its steps in the order input validation and
\* file loading, configuration validation, tag and metadata parsing, handler
\* creation, LLM invocation, result display; a step that fails exits with
\* code 1 and no later step is performed; the LLM is invoked at most once;
\* the result panel and the 'complete' line are printed only when the
\* invocation has returned successfully.
C17_StepOrder ==
  [][prog' \in Commands =>
       \* each step moves forward in the order, and nothing follows the exit
       /\ StepRank(pc') > StepRank(pc)
       \* each effect belongs to its step
       /\ input_text' # input_text => pc = "load_input"
       /\ attr_options' # attr_options => pc = "prepare"
       /\ (clients' # clients \/ handlers' # handlers) => pc = "create_handler"
       /\ (chains' # chains \/ invocations' # invocations) => pc = "call"
       /\ llm_result' # llm_result => pc = "llm"
       /\ Len(invocations') <= 1
       \* a failing step exits with code 1
       /\ (pc = "validate_config" /\ ~HasCredentials(config)) => exit_code' = 1
       /\ (pc = "prepare" /\ options'.metadata = Some(JsonBroken)) => exit_code' = 1
       /\ (pc = "returned" /\ result.raised) => exit_code' = 1
       /\ (pc' = "exit" /\ pc # "returned") => exit_code' = 1
       /\ (exit_code' # -1) <=> (pc' = "exit")
       /\ exit_code' \in {-1, 0, 1}
       \* the result is displayed only after a successful invocation
       /\ ({"Result panel: ", "complete"} \cap Printed' # {}) =>
            /\ {"Result panel: ", "complete"} \subseteq Printed'
            /\ pc = "returned"
            /\ exit_code' = 0
            /\ Len(invocations) = 1
            /\ ~llm_result.raised
            /\ ~result.raised]_vars

\* C17 witness: a summarize run given a file has loaded it, validated the
\* configuration, parsed two tags, created its handler, invoked the LLM once
\* and printed the result panel and the 'complete' line
C17_Witness ==
  /\ prog = "summarize"
  /\ pc = "exit"
  /\ exit_code = 0
  /\ Truthy(inputs.file)
  /\ input_text = Some(<<"d","o","c">>)
  /\ attr_options.tags = Some(<< <<"a">>, <<"b">> >>)
  /\ Len(handlers) = 1
  /\ Len(invocations) = 1
  /\ "Result panel: " \in Printed
  /\ console[Len(console)].label = "complete"

\* a run given an empty --text / --context value and no file
EmptyTextOption ==
  /\ prog \in {"summarize", "analyze", "rag"}
  /\ inputs.text = Some(<<>>)
  /\ ~Truthy(inputs.file)

\* the text loaded by a run is empty or whitespace-only
BlankTextLoaded ==
  /\ prog \in {"summarize", "analyze", "rag"}
  /\ input_text # None
  /\ Blank(input_text)

\* the run has ended with code 1, without invocation, and, where the
\* configuration and the metadata are valid, by the ValueError of the agent
\* operation, raised after the handler was created
RejectedInOperation ==
  /\ exit_code = 1
  /\ invocations = <<>>
  /\ chains = <<>>
  /\ "Result panel: " \notin Printed
  /\ (HasCredentials(config) /\ options.metadata # Some(JsonBroken)) =>
       /\ result.raised
       /\ result.exc.type = "ValueError"
       /\ result.exc.msg \in {MsgInputEmpty, MsgQuestionEmpty, MsgContextEmpty}
       /\ LastLine = Line("Error: ", result.exc.msg)
  /\ result.raised =>
       /\ HasCredentials(config)
       /\ Len(clients) = 1
       /\ Len(handlers) = 1
       /\ call.handler = 1

\* C18: when the input text of a summarize, analyze or rag run (the --text /
\* --context value, or the content read from the file) is empty or
\* whitespace-only, the run exits with code 1 and issues no invocation, and
\* the text is refused inside the agent operation, only after configuration
\* validation and handler creation have succeeded.
C18_BlankTextRejectedInOperation ==
  (pc = "exit" /\ (BlankTextLoaded \/ EmptyTextOption)) => RejectedInOperation

\* C18 as amended: a whitespace-only --text / --context value and an empty
\* or whitespace-only file content are refused inside the agent operation,
\* after configuration validation and handler creation; an empty --text /
\* --context value without a file is refused by the input validation, with
\* code 1, before the configuration is validated and any handler is created.
C18_BlankTextRejectedAmended ==
  /\ (pc = "exit" /\ BlankTextLoaded) => RejectedInOperation
  /\ (pc # "start" /\ EmptyTextOption) =>
       /\ pc = "exit"
       /\ exit_code = 1
       /\ LastLine = Line("Error: Either input must be provided", <<>>)
       /\ input_text = None
       /\ clients = <<>> /\ handlers = <<>> /\ invocations = <<>>
       /\ ~result.raised

\* C18 witness: an analyze run given a file holding only a blank and a line
\* break has created its handler and exited with the operation's ValueError
C18_Witness ==
  /\ prog = "analyze"
  /\ pc = "exit"
  /\ Truthy(inputs.file)
  /\ input_text = Some(<<" ", "\n">>)
  /\ Len(handlers) = 1
  /\ result = Raise(Exc("ValueError", MsgInputEmpty))
  /\ exit_code = 1

\* C19: a chat command passes chat an empty history and keeps none of the
\* history returned: the input of its invocation is the system message
\* followed by the user's message, and no pair of an earlier exchange is in
\* it, whatever session id is given.
C19_CliChatHasNoHistory ==
  prog = "chat" =>
    /\ chat_history = 0
    /\ Len(invocations) <= 1
    /\ \A i \in 1..Len(invocations) :
         invocations[i].input =
           <<[role |-> "system", content |-> ChatSystemPrompt],
             [role |-> "human", content |-> Val(inputs.prompt)]>>
    /\ pc \in {"llm", "returned", "exit"} /\ call.op = "chat" =>
         /\ call.history # 0
         /\ lists[call.history] = <<>>

\* C19 witness: a chat command given the session id s1 has had its message
\* answered and has ended; the list it passed is still empty and the list
\* chat returned holds the one pair
C19_Witness ==
  /\ prog = "chat"
  /\ pc = "exit"
  /\ exit_code = 0
  /\ options.session_id = Some(<<"s","1">>)
  /\ Len(invocations) = 1
  /\ Len(invocations[1].input) = 2
  /\ lists[call.history] = <<>>
  /\ \E r \in 1..Len(lists) : Len(lists[r]) = 1

\* the lines that show the session id to the user
SessionLines ==
  {i \in 1..Len(console) :
     console[i].label \in {"Session ID: ", "No session ID provided, using: "}}

\* C20: in a chat command a session id session-<timestamp> is generated
\* when --session-id is absent or empty; the session id is non-empty when
\* the LLM is invoked; and one and the same value is given to
\* get_langfuse_handler, placed in the invocation metadata and printed.
C20_ChatSessionId ==
  (prog = "chat" /\ attr_options # NoAttrs) =>
    /\ Truthy(session_id)
    /\ IF Truthy(options.session_id)
         THEN session_id = options.session_id
         ELSE \E now \in Clock : Val(session_id) = S_session \o strftime(now)
    /\ attr_options.session_id = session_id
    /\ \A i \in 1..Len(handlers) : handlers[i]._langfuse_session_id = session_id
    /\ \A i \in 1..Len(invocations) :
         /\ "metadata" \in DOMAIN invocations[i].config
         /\ "session_id" \in DOMAIN invocations[i].config.metadata
         /\ invocations[i].config.metadata.session_id = Val(session_id)
    /\ \A i \in SessionLines : console[i].arg = Val(session_id)
    /\ options.verbose => SessionLines # {}
    /\ exit_code = 0 =>
         \E i \in SessionLines, j \in 1..Len(console) :
           console[j].label = "Result panel: " /\ j < i

\* C20 witness: a chat command given an empty --session-id has generated
\* one, invoked the LLM with it in the metadata, and printed it at the end
C20_Witness ==
  /\ prog = "chat"
  /\ pc = "exit"
  /\ exit_code = 0
  /\ options.session_id = Some(<<>>)
  /\ SubSeq(Val(session_id), 1, 8) = S_session
  /\ Len(Val(session_id)) = 23
  /\ invocations[1].config.metadata.session_id = Val(session_id)
  /\ handlers[1]._langfuse_session_id = session_id
  /\ SessionLines # {}

\* the lines that show the trace name to the user
TraceNameLines ==
  {i \in 1..Len(console) :
     console[i].label \in {"Using trace name: ", "Trace name: "}}

\* the prefix of the generated trace names of each command
PrefixOf ==
  [summarize |-> <<"s","u","m","m","a","r","i","z","a","t","i","o","n","-">>,
   analyze |-> <<"a","n","a","l","y","s","i","s","-">>,
   chat |-> <<"c","h","a","t","-">>,
   rag |-> <<"r","a","g","-">>]

\* C21: in every command the trace name is the --trace-name value when that
\* is non-empty and otherwise <prefix>-<timestamp> with the command's own
\* prefix; it is never empty; and one and the same value is given to
\* get_langfuse_handler, placed as trace_name in the invocation metadata and
\* printed.
C21_TraceName ==
  (prog \in Commands /\ attr_options # NoAttrs) =>
    /\ trace_id # <<>>
    /\ IF NonEmpty(options.trace_name)
         THEN trace_id = Val(options.trace_name)
         ELSE \E now \in Clock : trace_id = PrefixOf[prog] \o strftime(now)
    /\ attr_options.trace_name = Some(trace_id)
    /\ \A i \in 1..Len(handlers) : handlers[i]._langfuse_trace_name = Some(trace_id)
    /\ \A i \in 1..Len(invocations) :
         /\ "metadata" \in DOMAIN invocations[i].config
         /\ "trace_name" \in DOMAIN invocations[i].config.metadata
         /\ invocations[i].config.metadata.trace_name = trace_id
    /\ \A i \in TraceNameLines : console[i].arg = trace_id
    /\ options.verbose => TraceNameLines # {}
    /\ exit_code = 0 =>
         \E i \in TraceNameLines, j \in 1..Len(console) :
           /\ console[i].label = "Trace name: "
           /\ console[j].label = "Result panel: " /\ j < i

\* C21 witness: a rag command given no --trace-name has generated
\* rag-<timestamp>, invoked the LLM with it in the metadata and printed it
\* after the result
C21_Witness ==
  /\ prog = "rag"
  /\ pc = "exit"
  /\ exit_code = 0
  /\ options.trace_name = None
  /\ SubSeq(trace_id, 1, 4) = <<"r","a","g","-">>
  /\ Len(trace_id) = 19
  /\ invocations[1].config.metadata.trace_name = trace_id
  /\ handlers[1]._langfuse_trace_name = Some(trace_id)
  /\ \E i \in TraceNameLines : console[i].label = "Trace name: "

\* the k-th smallest element of a set of numbers
KthSmallest(S, k) == CHOOSE x \in S : Cardinality({y \in S : y < x}) = k - 1

\* the positions before, at and after which the segments of s end: 0, the
\* commas, Len(s) + 1
Cuts(s) == {0, Len(s) + 1} \cup {i \in 1..Len(s) : s[i] = ","}

\* the k-th comma-separated segment of s
Segment(s, k) ==
  SubSeq(s, KthSmallest(Cuts(s), k) + 1, KthSmallest(Cuts(s), k + 1) - 1)

\* a string without the whitespace around it
Trimmed(seg) ==
  LET inked == {i \in 1..Len(seg) : seg[i] \notin Whitespace} IN
  IF inked = {} THEN <<>>
  ELSE SubSeq(seg, KthSmallest(inked, 1), KthSmallest(inked, Cardinality(inked)))

\* the numbers of the segments of s that are not blank
KeptSegments(s) ==
  {k \in 1..(Cardinality(Cuts(s)) - 1) : Trimmed(Segment(s, k)) # <<>>}

\* C22: parse_tags returns None for an absent or empty string; otherwise
\* the comma-separated segments in their order, each without surrounding
\* whitespace, blank segments dropped and duplicates kept: no tag is empty
\* or starts or ends with whitespace, and the result is an empty list when
\* every segment is blank.
C22_ParseTags ==
  \A c \in LibCalls("parse_tags") :
    LET a == lib[c].args
        r == lib[c].ret
    IN IF a = None \/ Val(a) = <<>> THEN r = None
       ELSE LET s == Val(a)
                tags == Val(r)
            IN /\ r # None
               /\ Len(tags) = Cardinality(KeptSegments(s))
               /\ \A j \in 1..Len(tags) :
                    /\ tags[j] = Trimmed(Segment(s, KthSmallest(KeptSegments(s), j)))
                    /\ tags[j] # <<>>
                    /\ tags[j][1] \notin Whitespace
                    /\ tags[j][Len(tags[j])] \notin Whitespace
               /\ (\A i \in 1..Len(s) : s[i] \in Whitespace \cup {","}) => tags = <<>>

\* C22 witness: parse_tags("a, ,a") has returned ["a", "a"], the blank
\* segment dropped and the duplicate kept
C22_Witness ==
  \E c \in LibCalls("parse_tags") :
    /\ lib[c].args = Some(<<"a", ",", " ", ",", "a">>)
    /\ lib[c].ret = Some(<< <<"a">>, <<"a">> >>)

\* the invocation an operation has just issued and the arguments it got
JustIssued(ops) == pc = "llm" /\ call.op \in ops /\ invocations # <<>>
LastInvocation == invocations[Len(invocations)]
MetadataOps == {"analyze_text", "chat", "rag_query"}

====
